---- MODULE Spec2Model ----
(***************************************************************************)
(* Model of the ttds display server: the pane store and rotation loop of   *)
(* threads/ui.c, the rasterizer of rendering.c and the page flip of the    *)
(* DRM backend.                                                            *)
(*                                                                         *)
(* Threads: "ctl" is ui_thread, "rot" is rotate_panes, "cmd" is the        *)
(* command reader (cmd_inner) calling the ui_pane_* functions.             *)
(* Heap objects are numbered; a pane slot holds the numbers (pointers) of  *)
(* its name and of its canvas, 0 being NULL.                               *)
(***************************************************************************)
EXTENDS Integers, Sequences, FiniteSets, TLC

(* ------------------------------ bounds -------------------------------- *)
\* capacity of the pane array (MAX_PANES, scaled down)
MAX_PANES == 2
\* number of ui_pane_* calls the command reader issues
MaxCalls == 2
\* largest value of the rotation counter i
MaxTicks == 2
\* largest width and height of a canvas or mode the rasterizer is run on
MaxDim == 3
\* number of draw_point calls of one rendering_draw_circle call that are followed
MaxDraws == 10

(* ----------------------- hardware mode (backend) ---------------------- *)
\* mode.hdisplay and mode.vdisplay of the CRTC.  One column is the mode in
\* which the row pitch a canvas gets as its stride equals the four bytes
\* draw_point needs per pixel.
ModeW == 1
ModeH == 4
\* fb_create.pitch and fb_create.size of a 32 bpp dumb buffer
ModePitch == 4 * ModeW
ModeSize == ModePitch * ModeH

NULL == 0
U16 == 65536

AllNames == <<"root", "a", "b", "c", "d", "e", "f">>
\* the names the command reader uses: one more than the array can hold
Names == {AllNames[k] : k \in 1..(MAX_PANES + 1)}

Red == [r |-> 255, g |-> 0, b |-> 0]
Blue == [r |-> 0, g |-> 0, b |-> 255]
Colors == {Red, Blue}
\* shapes whose every draw_point lands inside a ModeW x ModeH canvas buffer
\* (a rect uses x, y, w, h and a circle x, y, r)
NoShape == [x |-> 0, y |-> 0, w |-> 0, h |-> 0, r |-> 0]
Rects == {[NoShape EXCEPT !.y = 2, !.w = 1, !.h = 2],
          [NoShape EXCEPT !.y = 3, !.w = 1, !.h = 2]}
Circles == {[NoShape EXCEPT !.x = 1, !.y = 1, !.r = 1]}

Slots == 0..(MAX_PANES - 1)

VARIABLES
    count,            \* ctx->panes.count
    panes,            \* ctx->panes.panes: slot -> [name, canvas] pointers
    lock,             \* owner of ctx->panes.lock: "none", "rot" or "cmd"
    strs,             \* heap: live strdup'ed names, pointer -> string
    canv,             \* heap: live canvases, pointer -> struct canvas
    cancellation_fd,  \* ctx->cancellation_fd
    pipe_byte,        \* a byte is in ui_thread's cancellation pipe
    front_buf_idx,    \* rendering_ctx.front_buf_idx
    ctl_pc,           \* position of ui_thread
    rot_pc,           \* position of rotate_panes
    i,                \* the rotation counter
    rot_fd,           \* fds[0].fd of rotate_panes
    cmd_pc,           \* position of the command reader
    call,             \* the ui_pane_* call in progress; the op of the last one
    ret,              \* what the last call returned
    calls,            \* number of calls issued
    proc,             \* "running" or "fatal" (process terminated)
    shown,            \* the shows since the last create or remove: tick, slot, name
    flip_r,           \* what the last drmModePageFlip of the current show returned
    callers,          \* two threads calling ui_pane_create: caller -> its registers
    mode,             \* rendering_ctx: mode.hdisplay, mode.vdisplay, bufs[].stride, bufs[].size
    r_canvas,         \* a canvas the rasterizer is called on directly
    r_pc,             \* position of the thread that calls the rasterizer
    reg,              \* the rasterizer call: arguments and locals
    wr,               \* the points the call has passed to draw_point
    oob,              \* a draw_point of the call wrote outside the canvas buffer
    file              \* the file of rendering_dump_bgra_to_rgba: state and bytes

store == <<count, panes, strs, canv>>
cmdv == <<cmd_pc, call, ret, calls>>
rotv == <<rot_pc, i, rot_fd, shown, flip_r>>
\* the variables the specification at hand leaves alone
rndv == <<mode, r_canvas, r_pc, reg, wr, oob, file>>
sidev == <<callers, rndv>>
vars == <<count, panes, lock, strs, canv, cancellation_fd, pipe_byte,
          front_buf_idx, ctl_pc, rot_pc, i, rot_fd, cmd_pc, call, ret,
          calls, proc, shown, flip_r, callers, mode, r_canvas, r_pc, reg, wr, oob, file>>

(* ------------------------------- heap --------------------------------- *)
\* malloc: the lowest pointer not in use in either heap
Malloc(used) == CHOOSE n \in 1..(Cardinality(used) + 1) :
                    n \notin used /\ \A m \in 1..(n - 1) : m \in used
Live == DOMAIN strs \cup DOMAIN canv
HeapFree(h, p) == [q \in DOMAIN h \ {p} |-> h[q]]
HeapPut(h, p, v) == [q \in DOMAIN h \cup {p} |-> IF q = p THEN v ELSE h[q]]

(* ----------------------------- rasterizer ----------------------------- *)
\* one byte of a memcpy into a buffer (byte n of the buffer is element n + 1);
\* a byte that falls outside the buffer is not a byte of the canvas
put_byte(buf, n, v) == IF n + 1 \in DOMAIN buf THEN [buf EXCEPT ![n + 1] = v] ELSE buf
\* memcpy(&buffer[at], mapped, 4)
memcpy4(buf, at, mapped) ==
    put_byte(put_byte(put_byte(put_byte(buf, at, mapped[1]), at + 1, mapped[2]),
                      at + 2, mapped[3]), at + 3, mapped[4])

\* draw_point with the bytes in the order R, G, B, 0xFF
draw_point_rgba(c, x, y, color) ==
    LET mapped == <<color.r, color.g, color.b, 255>>
        pixel_idx == y * c.width + x
        byte_idx == pixel_idx * c.stride
    IN [c EXCEPT !.buffer = memcpy4(c.buffer, byte_idx, mapped)]

\* draw_point: four bytes B, G, R, 0xFF at byte (y*width + x)*stride
draw_point(c, x, y, color) ==
    LET mapped == <<color.b, color.g, color.r, 255>>
        pixel_idx == y * c.width + x
        byte_idx == pixel_idx * c.stride
    IN [c EXCEPT !.buffer = memcpy4(c.buffer, byte_idx, mapped)]

\* the write of draw_point lies inside the buffer
point_in_buffer(c, x, y) == (y * c.width + x) * c.stride + 4 <= Len(c.buffer)

\* one of the points is written outside the buffer of the canvas
points_oob(c, pts) == \E p \in pts : ~point_in_buffer(c, p[1], p[2])
\* a write outside the buffer is undefined: the process dies of it or goes on
\* with memory that is not the canvas's overwritten
write_outcomes(bad) == IF bad THEN {"crash", "corrupt"} ELSE {"ok"}

\* draw_point on every point of a set, one after the other (b is the canvas
\* after the point p and the points still to draw)
RECURSIVE draw_points(_, _, _)
draw_points(c, pts, color) ==
    IF pts = {} THEN c
    ELSE CHOOSE r \in
            {draw_points(b[1], b[2], color) :
                b \in {<<draw_point(c, p[1], p[2], color), pts \ {p}>> :
                          p \in {CHOOSE q \in pts : TRUE}}} : TRUE

fill_points(c) == {<<x, y>> : x \in 0..(c.width - 1), y \in 0..(c.height - 1)}
rendering_fill(c, color) == draw_points(c, fill_points(c), color)

\* rect_points with the right and bottom edges taken in
rect_points_inclusive(c, rect) ==
    LET right_edge == (rect.x + rect.w) % U16
        bottom_edge == (rect.y + rect.h) % U16
    IN {<<x, y>> : x \in {e \in 0..(c.width - 1) : rect.x <= e /\ e <= right_edge},
                   y \in rect.y..bottom_edge}

rect_points(c, rect) ==
    LET right_edge == (rect.x + rect.w) % U16
        bottom_edge == (rect.y + rect.h) % U16
    IN {<<x, y>> : x \in {e \in 0..(c.width - 1) : rect.x <= e /\ e < right_edge},
                   y \in rect.y..(bottom_edge - 1)}
rendering_draw_rect(c, rect, color) == draw_points(c, rect_points(c, rect), color)

\* the span loops of rendering_draw_circle for a centre column cx > 0
span_down(cx, start, ey) == {<<e, ey>> : e \in cx..start}
span_up(cx, start, ey) == {<<e, ey>> : e \in start..(cx - 1)}
circle_step(circle, x, y) ==
    LET cx == circle.x
        cy == circle.y
    IN span_down(cx, (cx + x) % U16, (cy + y) % U16)
       \cup span_down(cx, (cx + x) % U16, (cy - y) % U16)
       \cup span_up(cx, (cx - x) % U16, (cy - y) % U16)
       \cup span_up(cx, (cx - x) % U16, (cy + y) % U16)
       \cup span_down(cx, (cx + y) % U16, (cy + x) % U16)
       \cup span_down(cx, (cx + y) % U16, (cy - x) % U16)
       \cup span_up(cx, (cx - y) % U16, (cy - x) % U16)
       \cup span_up(cx, (cx - y) % U16, (cy + x) % U16)

RECURSIVE circle_loop(_, _, _, _)
circle_loop(circle, x, y, t1) ==
    IF ~(x >= y) THEN {}
    ELSE LET y2 == (y + 1) % U16
             t1b == t1 + y2
             t2 == t1b - x
         IN circle_step(circle, x, y)
            \cup (IF t2 >= 0 THEN circle_loop(circle, (x - 1) % U16, y2, t2)
                  ELSE circle_loop(circle, x, y2, t1b))
circle_points(circle) == circle_loop(circle, circle.r, 0, circle.r \div 16)
rendering_draw_circle(c, circle, color) ==
    draw_points(c, circle_points(circle), color)

(* ------------------------------ backend ------------------------------- *)
\* init_mode and init_buf: the mode of the CRTC and the pitch and size of a
\* 32 bpp dumb buffer of that mode
ModeOf(w, h) == [hdisplay |-> w, vdisplay |-> h, pitch |-> 4 * w, size |-> 4 * w * h]
\* the modes the hardware may be in
Modes == {ModeOf(w, h) : w \in 1..MaxDim, h \in 1..MaxDim}
\* the rendering context before drm_rendering_init
NoMode == ModeOf(0, 0)

\* a canvas of the mode m, its stride and size those of the front buffer
mode_canvas(m) == [width |-> m.hdisplay, height |-> m.vdisplay, stride |-> m.pitch,
                   buffer |-> [k \in 1..m.size |-> 0]]
\* drm_canvas_init
drm_canvas_init == mode_canvas(mode)

\* canvas_init_bgra: stride 4, a buffer of width * height * stride bytes
canvas_init_bgra(w, h) == [width |-> w, height |-> h, stride |-> 4,
                           buffer |-> [k \in 1..(w * h * 4) |-> 0]]
\* canvas_buffer_size
canvas_buffer_size(c) == c.width * c.height * c.stride

\* the pixel at byte idx of a buffer as the dump writes it, without the swap
rgba_pixel_asis(buf, idx) == <<buf[idx + 1], buf[idx + 2], buf[idx + 3], buf[idx + 4]>>

\* rgba_pixel of rendering_dump_bgra_to_rgba for the pixel at byte idx:
\* buffer[idx + 2], buffer[idx + 1], buffer[idx + 0], buffer[idx + 3]
rgba_pixel(buf, idx) == <<buf[idx + 3], buf[idx + 2], buf[idx + 1], buf[idx + 4]>>

\* the bytes written by the first n rounds of the loop of the dump over a
\* buffer, each round one rgba_pixel at idx = 0, 4, 8, ...
dump_rounds(buf, n) ==
    [k \in 1..(4 * n) |-> rgba_pixel(buf, 4 * ((k - 1) \div 4))[((k - 1) % 4) + 1]]

\* no file written
NoFile == [st |-> "none", out |-> <<>>]

\* no canvas
NoCanvas == [width |-> 0, height |-> 0, stride |-> 0, buffer |-> <<>>]


\* mutant: the front index is left as it is after a flip
flip_front_keep(f) == f

\* ctx->front_buf_idx ^= 1, and the back buffer 1 ^ ctx->front_buf_idx
flip_front(f) == IF f % 2 = 0 THEN f + 1 ELSE f - 1

\* mutant: a busy page flip is taken for an error, as any other failure
flip_outcome_strict(r) == IF r = "ok" THEN "done" ELSE "fatal"

\* the page flip loop of drm_rendering_show on the result r of
\* drmModePageFlip: 0 ends the loop, EBUSY repeats the request, any other
\* errno is FATAL_ERR
flip_outcome(r) ==
    IF r = "ok" THEN "done" ELSE IF r = "EBUSY" THEN "retry" ELSE "fatal"

(* --------------------------- initial state ---------------------------- *)
\* default background of the root pane
bg == [r |-> 34, g |-> 34, b |-> 136]
\* a slot of the malloc'ed context that was never written (it is not read
\* before it is written)
NoPane == [name |-> NULL, canvas |-> NULL]
\* the callers of the two-caller specification, before their calls
Callers == {"c1", "c2"}
\* pc: where the caller is in ui_pane_create; name: its argument; idx: the
\* local idx; conc: the other caller's call was in progress when this one
\* was made; ret: what the call returned
NoCallers == [t \in Callers |-> [pc |-> "idle", name |-> "", idx |-> 0, conc |-> FALSE,
                                  ret |-> "none"]]
NoCall == [op |-> "none", name |-> "", shape |-> NoShape, color |-> bg]
LastCall(op) == [NoCall EXCEPT !.op = op]

\* ui_ctx_new: the store as it is when the constructor returns
ui_ctx_new ==
    /\ count = 1
    /\ panes = [s \in Slots |-> IF s = 0 THEN [name |-> 1, canvas |-> 2] ELSE NoPane]
    /\ strs = (1 :> "root")
    /\ canv = (2 :> rendering_fill(drm_canvas_init, bg))
    /\ lock = "none"
    /\ cancellation_fd = -1

\* drm_rendering_init: buffer 0 is the front buffer
drm_rendering_init ==
    front_buf_idx = 0

\* no rasterizer call
NoReg == [op |-> "none", color |-> bg, cx |-> 0, cy |-> 0, r |-> 0, w |-> 0, h |-> 0,
          x |-> 0, y |-> 0,
          t1 |-> 0, span |-> 0, eff_x |-> 0, eff_y |-> 0, draws |-> 0]

Init ==
    /\ mode = [hdisplay |-> ModeW, vdisplay |-> ModeH, pitch |-> ModePitch, size |-> ModeSize]
    /\ r_canvas = NoCanvas /\ r_pc = "off" /\ reg = NoReg /\ wr = {} /\ oob = FALSE
    /\ file = NoFile
    /\ ui_ctx_new
    /\ drm_rendering_init
    /\ pipe_byte = FALSE
    /\ ctl_pc = "pipe"
    /\ rot_pc = "unborn"
    /\ i = 0
    /\ rot_fd = -1
    /\ cmd_pc = "idle"
    /\ call = NoCall
    /\ ret = "none"
    /\ calls = 0
    /\ proc = "running"
    /\ shown = <<>>
    /\ flip_r = "none"
    /\ callers = NoCallers

(* ------------------------------ the mutex ----------------------------- *)
\* mutant: a lock that is taken without waiting for its owner
mutex_lock_free(t) == lock' = t

\* pthread_mutex_lock on the default (non-recursive) mutex: blocks until the
\* mutex is free, then owns it; a thread that locks a mutex it already owns
\* blocks for ever
mutex_lock(t) == lock = "none" /\ lock' = t
\* pthread_mutex_unlock
mutex_unlock == lock' = "none"

(* ----------------------------- pane store ----------------------------- *)
\* strcmp(p->name, name) == 0 for the pane in slot s
name_is(s, name) == panes[s].name \in DOMAIN strs /\ strs[panes[s].name] = name

\* mutant: the duplicate scan finds nothing
create_scan_never(name) == FALSE

\* the scan of ui_pane_create: some slot below count holds the name
create_scan(name) == \E s \in 0..(count - 1) : name_is(s, name)

\* mutant: the array is never taken to be full
create_full_never(idx) == FALSE

\* assert(idx < MAX_PANES) fails
create_full(idx) == ~(idx < MAX_PANES)

\* mutant: the count is incremented before the allocations are checked
create_fail_counted(idx, nm, cv) ==
    /\ panes' = [panes EXCEPT ![idx] = [name |-> nm, canvas |-> cv]]
    /\ count' = count + 1
    /\ ret' = "UI_OOM"
    /\ UNCHANGED <<strs, canv, shown, proc, lock>>

\* the two failure returns of ui_pane_create: slot idx is left with the
\* pointers nm and cv, the count is not touched, a name that was duplicated
\* has been freed again, and the function returns without unlocking
create_fail(idx, nm, cv) ==
    /\ panes' = [panes EXCEPT ![idx] = [name |-> nm, canvas |-> cv]]
    /\ ret' = "UI_OOM"
    /\ UNCHANGED <<count, strs, canv, shown, proc, lock>>

\* what strdup and vt.canvas_init can do in ui_pane_create: both succeed,
\* strdup returns NULL, or malloc fails in drm_canvas_init, which writes
\* through the NULL it got, so that the process dies.  No backend of the
\* table returns NULL ("canvas_null").
create_outcomes == {"ok", "strdup_null", "canvas_crash"}

\* ui_pane_create, the mutex held
ui_pane_create(name, fill) ==
    LET idx == count IN
    IF create_scan(name)
    THEN /\ mutex_unlock
         /\ ret' = "UI_DUPLICATE"
         /\ UNCHANGED <<store, shown, proc>>
    ELSE IF create_full(idx)
    THEN \* assert(idx < MAX_PANES) aborts the process
         /\ proc' = "fatal"
         /\ ret' = "none"
         /\ UNCHANGED <<store, shown, lock>>
    ELSE \E o \in create_outcomes :
         LET n == Malloc(Live)
             m == Malloc(Live \cup {n})
         IN CASE o = "strdup_null" ->
                 \* if (!p->name) return UI_OOM
                 create_fail(idx, NULL, panes[idx].canvas)
              [] o = "canvas_null" ->
                 \* if (!p->canvas) { free(p->name); return UI_OOM; }
                 create_fail(idx, n, NULL)
              [] o = "canvas_crash" ->
                 /\ proc' = "fatal"
                 /\ ret' = "none"
                 /\ panes' = [panes EXCEPT ![idx].name = n]
                 /\ strs' = HeapPut(strs, n, name)
                 /\ UNCHANGED <<count, canv, shown, lock>>
              [] OTHER ->
                 /\ panes' = [panes EXCEPT ![idx] = [name |-> n, canvas |-> m]]
                 /\ strs' = HeapPut(strs, n, name)
                 /\ canv' = HeapPut(canv, m, rendering_fill(drm_canvas_init, fill))
                 /\ count' = count + 1
                 /\ shown' = <<>>
                 /\ mutex_unlock
                 /\ ret' = "UI_OK"
                 /\ UNCHANGED proc

\* mutant: the scan ends on the last slot when nothing matches
remove_find_last(name) ==
    IF \E s \in 0..(count - 1) : name_is(s, name)
    THEN CHOOSE s \in 0..(count - 1) :
            name_is(s, name) /\ \A t \in 0..(s - 1) : ~name_is(t, name)
    ELSE count - 1

\* the scan of ui_pane_remove: the first slot below count holding the name, or -1
remove_find(name) ==
    IF \E s \in 0..(count - 1) : name_is(s, name)
    THEN CHOOSE s \in 0..(count - 1) :
            name_is(s, name) /\ \A t \in 0..(s - 1) : ~name_is(t, name)
    ELSE -1

\* mutant: the compaction moves the names and leaves the canvases behind
remove_shift_names(k) ==
    [s \in Slots |-> IF s >= k /\ s + 1 < count
                     THEN [name |-> panes[s + 1].name, canvas |-> panes[s].canvas]
                     ELSE panes[s]]

\* the compaction loop of ui_pane_remove: slots k..count-2 take their successor
remove_shift(k) ==
    [s \in Slots |-> IF s >= k /\ s + 1 < count THEN panes[s + 1] ELSE panes[s]]

\* ui_pane_remove, the mutex held
ui_pane_remove(name) ==
    LET k == remove_find(name) IN
    IF k = -1
    THEN /\ mutex_unlock
         /\ ret' = "UI_NO_SUCH_PANE"
         /\ UNCHANGED <<store, shown, proc>>
    ELSE /\ strs' = HeapFree(strs, panes[k].name)
         /\ canv' = HeapFree(canv, panes[k].canvas)
         /\ panes' = remove_shift(k)
         /\ count' = count - 1
         /\ shown' = <<>>
         /\ mutex_unlock
         /\ ret' = "UI_OK"
         /\ UNCHANGED proc

\* the scan of ui_pane_draw_rect / ui_pane_draw_circle: p is set to every slot
\* visited, so it is the first match, else the last slot, else NULL (-1)
draw_find(name) ==
    IF \E s \in 0..(count - 1) : name_is(s, name)
    THEN CHOOSE s \in 0..(count - 1) :
            name_is(s, name) /\ \A t \in 0..(s - 1) : ~name_is(t, name)
    ELSE count - 1

\* ui_pane_draw_rect and ui_pane_draw_circle, the mutex held
ui_pane_draw(op, name, shape, c) ==
    LET p == draw_find(name) IN
    IF p = -1
    THEN \* if (!p) return UI_NO_SUCH_PANE: returns without unlocking
         /\ ret' = "UI_NO_SUCH_PANE"
         /\ UNCHANGED <<store, shown, proc, lock>>
    ELSE LET target == panes[p].canvas
             pts == IF op = "draw_rect" THEN rect_points(canv[target], shape)
                    ELSE circle_points(shape)
         IN \E o \in write_outcomes(points_oob(canv[target], pts)) :
              IF o = "crash"
              THEN /\ proc' = "fatal"
                   /\ UNCHANGED <<store, shown, lock, ret>>
              ELSE \* a write beyond the buffer lands in the heap: on nothing
                   \* that is seen again, or on the canvas of another pane
                   /\ \E victim \in IF o = "ok" THEN {NULL}
                                     ELSE {NULL} \cup (DOMAIN canv \ {target}) :
                        canv' = [q \in DOMAIN canv |->
                                   IF q = victim THEN draw_point(canv[q], 0, 0, c)
                                   ELSE IF q # target THEN canv[q]
                                   ELSE IF op = "draw_rect"
                                        THEN rendering_draw_rect(canv[q], shape, c)
                                        ELSE rendering_draw_circle(canv[q], shape, c)]
                   /\ mutex_unlock
                   /\ ret' = "UI_OK"
                   /\ UNCHANGED <<count, panes, strs, shown, proc>>

(* --------------------------- command reader --------------------------- *)
Calls ==
    {[op |-> "create", name |-> n, shape |-> NoShape, color |-> c] : n \in Names, c \in Colors}
    \cup {[op |-> "remove", name |-> n, shape |-> NoShape, color |-> bg] : n \in Names}
    \cup {[op |-> "draw_rect", name |-> n, shape |-> s, color |-> Red] : n \in Names, s \in Rects}
    \cup {[op |-> "draw_circle", name |-> n, shape |-> s, color |-> Blue] : n \in Names, s \in Circles}

\* the context has been freed by ui_thread
torn == ctl_pc = "done"

\* cmd_inner reads a command and run() enters the ui_pane_* function
CmdCall ==
    /\ proc = "running" /\ cmd_pc = "idle" /\ calls < MaxCalls
    /\ \E c \in Calls : call' = c
    /\ cmd_pc' = "lock"
    /\ ret' = "none"
    /\ calls' = calls + 1
    /\ UNCHANGED <<sidev, store, lock, cancellation_fd, pipe_byte, front_buf_idx, ctl_pc, rotv,
                   proc>>

\* the pthread_mutex_lock that opens every ui_pane_* function
CmdLock ==
    /\ proc = "running" /\ cmd_pc = "lock" /\ ~torn
    /\ mutex_lock("cmd")
    /\ cmd_pc' = "body"
    /\ UNCHANGED <<sidev, store, cancellation_fd, pipe_byte, front_buf_idx, ctl_pc, rotv, call,
                   ret, calls, proc>>

\* the rest of the ui_pane_* function, up to its return
CmdBody ==
    /\ proc = "running" /\ cmd_pc = "body" /\ ~torn
    /\ CASE call.op = "create" -> ui_pane_create(call.name, call.color)
         [] call.op = "remove" -> ui_pane_remove(call.name)
         [] OTHER -> ui_pane_draw(call.op, call.name, call.shape, call.color)
    /\ cmd_pc' = IF proc' = "fatal" THEN "body" ELSE "idle"
    /\ call' = LastCall(call.op)
    /\ UNCHANGED <<sidev, cancellation_fd, pipe_byte, front_buf_idx, ctl_pc, rot_pc, i, rot_fd,
                   flip_r, calls>>

\* the termination signal arrives, cmd_thread writes its cancellation byte
\* after term_block; the reader's next poll sees it and the reader leaves
\* its loop
CmdCancel ==
    /\ proc = "running" /\ cmd_pc = "idle"
    /\ cmd_pc' = "exited"
    /\ UNCHANGED <<sidev, store, lock, cancellation_fd, pipe_byte, front_buf_idx, ctl_pc, rotv,
                   call, ret, calls, proc>>

\* a ui_pane_* function running on the context ui_thread has freed: the
\* process dies, or the call returns some result read from freed memory
CmdUseAfterFree ==
    /\ proc = "running" /\ cmd_pc \in {"lock", "body"} /\ torn
    /\ \E o \in {"fatal", "UI_OK", "UI_DUPLICATE", "UI_OOM", "UI_NO_SUCH_PANE"} :
          IF o = "fatal"
          THEN proc' = "fatal" /\ UNCHANGED <<cmd_pc, ret>>
          ELSE proc' = proc /\ cmd_pc' = "idle" /\ ret' = o
    /\ UNCHANGED <<sidev, store, lock, cancellation_fd, pipe_byte, front_buf_idx, ctl_pc, rotv,
                   call, calls>>


(* ---------------------------- rotation loop --------------------------- *)
\* mutant: the index is taken one tick ahead
rot_idx_next(n) == (n + 1) % count

\* size_t idx = i % ctx->panes.count
rot_idx(n) == n % count

\* top of the loop: pthread_mutex_lock
RotLock ==
    /\ proc = "running" /\ rot_pc = "lock"
    /\ mutex_lock("rot")
    /\ rot_pc' = "show"
    /\ UNCHANGED <<sidev, store, cancellation_fd, pipe_byte, front_buf_idx, ctl_pc, i, rot_fd,
                   shown, flip_r, cmdv, proc>>

\* idx = i % count, p = &panes[idx], and rendering_show up to its memcpy of
\* the canvas into the back buffer.  With count = 0 the division is
\* undefined: the process dies of SIGFPE, or goes on with a pointer that is
\* no pane's.
RotShow ==
    /\ proc = "running" /\ rot_pc = "show"
    /\ IF count = 0
       THEN \E o \in {"fatal", "garbage"} :
              IF o = "fatal"
              THEN proc' = "fatal" /\ UNCHANGED <<rot_pc, shown, flip_r>>
              ELSE /\ shown' = Append(shown, [tick |-> i, slot |-> -1, name |-> "?"])
                   /\ rot_pc' = "flip"
                   /\ flip_r' = "none"
                   /\ UNCHANGED proc
       ELSE LET idx == rot_idx(i)
                p == panes[idx]
            IN /\ shown' = Append(shown, [tick |-> i, slot |-> idx,
                              name |-> IF p.name \in DOMAIN strs THEN strs[p.name] ELSE "?"])
               /\ rot_pc' = "flip"
               /\ flip_r' = "none"
               /\ UNCHANGED proc
    /\ UNCHANGED <<sidev, store, lock, cancellation_fd, pipe_byte, front_buf_idx, ctl_pc, i,
                   rot_fd, cmdv>>

\* the page flip loop of drm_rendering_show: busy is retried, any other
\* error is fatal, success swaps the front and back roles and the show
\* returns; then pthread_mutex_unlock
RotFlip ==
    /\ proc = "running" /\ rot_pc = "flip"
    /\ \E r \in {"ok", "EBUSY", "error"} :
          /\ flip_r' = r
          /\ CASE flip_outcome(r) = "done" ->
                    /\ front_buf_idx' = flip_front(front_buf_idx)
                    /\ mutex_unlock
                    /\ rot_pc' = "poll"
                    /\ UNCHANGED proc
               [] flip_outcome(r) = "retry" ->
                    UNCHANGED <<front_buf_idx, lock, rot_pc, proc>>
               [] OTHER -> proc' = "fatal" /\ UNCHANGED <<front_buf_idx, lock, rot_pc>>
    /\ UNCHANGED <<sidev, store, cancellation_fd, pipe_byte, ctl_pc, i, rot_fd, shown, cmdv>>

\* mutant: the poll never reports the read end as readable
poll_ready_never == FALSE

\* poll(fds, 1, 1000) and fds[0].revents & POLLIN: the read end of the pipe
\* is readable as soon as the byte has been written
poll_ready == pipe_byte

\* the cancellable one second sleep: poll returns at once when the byte is
\* in the pipe and the loop is left, else it times out and i is incremented
RotPoll ==
    /\ proc = "running" /\ rot_pc = "poll"
    /\ IF poll_ready
       THEN rot_pc' = "exited" /\ i' = i
       ELSE i < MaxTicks /\ i' = i + 1 /\ rot_pc' = "lock"
    /\ UNCHANGED <<sidev, store, lock, cancellation_fd, pipe_byte, front_buf_idx, ctl_pc, rot_fd,
                   shown, flip_r, cmdv, proc>>

(* ------------------------------ ui_thread ----------------------------- *)
\* pipe(), the store of the read end, pthread_create(rotate_panes), which
\* copies the descriptor into fds[0].fd
CtlStart ==
    /\ proc = "running" /\ ctl_pc = "pipe"
    /\ cancellation_fd' = 3
    /\ rot_fd' = cancellation_fd'
    /\ rot_pc' = "lock"
    /\ ctl_pc' = "term_block"
    /\ UNCHANGED <<sidev, store, lock, pipe_byte, front_buf_idx, i, shown, flip_r, cmdv, proc>>

\* the termination signal arrives and term_block returns;
\* write(cancellation_pipe[1], "\0", 1)
CtlCancel ==
    /\ proc = "running" /\ ctl_pc = "term_block"
    /\ pipe_byte' = TRUE
    /\ ctl_pc' = "join"
    /\ UNCHANGED <<sidev, store, lock, cancellation_fd, front_buf_idx, rotv, cmdv, proc>>

\* mutant: pthread_join returns while the rotation thread still runs
pthread_join_early == TRUE

\* pthread_join(pane_handle, NULL) returns when rotate_panes has returned
pthread_join == rot_pc = "exited"

\* pthread_join returns; every pane below count is freed without the lock,
\* then the backend and the context
CtlTeardown ==
    /\ proc = "running" /\ ctl_pc = "join" /\ pthread_join
    /\ strs' = [q \in DOMAIN strs \ {panes[s].name : s \in 0..(count - 1)} |-> strs[q]]
    /\ canv' = [q \in DOMAIN canv \ {panes[s].canvas : s \in 0..(count - 1)} |-> canv[q]]
    /\ ctl_pc' = "done"
    /\ UNCHANGED <<sidev, count, panes, lock, cancellation_fd, pipe_byte, front_buf_idx, rotv,
                   cmdv, proc>>

Next ==
    \/ CmdCall \/ CmdLock \/ CmdBody \/ CmdCancel \/ CmdUseAfterFree
    \/ RotLock \/ RotShow \/ RotFlip \/ RotPoll
    \/ CtlStart \/ CtlCancel \/ CtlTeardown

Spec == Init /\ [][Next]_vars

\* Scheduling: a thread that can run does run.  The rotation thread, the
\* body of a ui_pane_* call and ui_thread's start and teardown are threads of
\* a fair scheduler; a page flip that is retried is in the end accepted or
\* refused.  Commands and the termination signal come from outside and may
\* never come.
FairSpec ==
    /\ Spec
    /\ WF_vars(RotLock) /\ WF_vars(RotShow) /\ WF_vars(RotFlip) /\ WF_vars(RotPoll)
    /\ WF_vars(CmdLock) /\ WF_vars(CmdBody)
    /\ WF_vars(CtlStart) /\ WF_vars(CtlTeardown)

(* ------------------- two threads calling ui_pane_create --------------- *)
\* ui_pane_create run by each of two threads, one call each, in the steps
\* another thread can tell apart: the lock, the duplicate scan, the rest.
OtherCaller(t) == CHOOSE u \in Callers : u # t
\* the fill colour the caller passes
CallerFill(t) == IF t = "c1" THEN Red ELSE Blue
\* the frame of the two-caller steps
mainv == <<cancellation_fd, pipe_byte, front_buf_idx, ctl_pc, rotv, cmdv, rndv>>

\* a thread calls ui_pane_create(ctx, name, fill)
TcCall(t) ==
    /\ proc = "running" /\ callers[t].pc = "idle"
    /\ \E n \in Names :
          callers' = [callers EXCEPT ![t].pc = "lock", ![t].name = n,
                         ![t].conc = callers[OtherCaller(t)].pc \in {"lock", "scan", "append"}]
    /\ UNCHANGED <<store, lock, proc, mainv>>

\* pthread_mutex_lock(&ctx->panes.lock)
TcLock(t) ==
    /\ proc = "running" /\ callers[t].pc = "lock"
    /\ mutex_lock(t)
    /\ callers' = [callers EXCEPT ![t].pc = "scan"]
    /\ UNCHANGED <<store, proc, mainv>>

\* idx = count and the scan of the slots below idx and, on a match, the
\* unlock and the return of UI_DUPLICATE
TcScan(t) ==
    /\ proc = "running" /\ callers[t].pc = "scan"
    /\ IF create_scan(callers[t].name)
       THEN /\ mutex_unlock
            /\ callers' = [callers EXCEPT ![t].pc = "done", ![t].ret = "UI_DUPLICATE"]
       ELSE /\ callers' = [callers EXCEPT ![t].pc = "append", ![t].idx = count]
            /\ UNCHANGED lock
    /\ UNCHANGED <<store, proc, mainv>>

\* the assertion, strdup, canvas_init and fill into slot idx, count++, the
\* unlock and the return
TcAppend(t) ==
    /\ proc = "running" /\ callers[t].pc = "append"
    /\ LET idx == callers[t].idx IN
       IF create_full(idx)
       THEN proc' = "fatal" /\ UNCHANGED <<store, lock, callers>>
       ELSE \E o \in create_outcomes :
            LET n == Malloc(Live)
                m == Malloc(Live \cup {n})
            IN CASE o = "strdup_null" ->
                    /\ panes' = [panes EXCEPT ![idx].name = NULL]
                    /\ callers' = [callers EXCEPT ![t].pc = "done", ![t].ret = "UI_OOM"]
                    /\ UNCHANGED <<count, strs, canv, lock, proc>>
                 [] o = "canvas_crash" ->
                    /\ proc' = "fatal"
                    /\ panes' = [panes EXCEPT ![idx].name = n]
                    /\ strs' = HeapPut(strs, n, callers[t].name)
                    /\ UNCHANGED <<count, canv, lock, callers>>
                 [] OTHER ->
                    /\ panes' = [panes EXCEPT ![idx] = [name |-> n, canvas |-> m]]
                    /\ strs' = HeapPut(strs, n, callers[t].name)
                    /\ canv' = HeapPut(canv, m, rendering_fill(drm_canvas_init, CallerFill(t)))
                    /\ count' = count + 1
                    /\ mutex_unlock
                    /\ callers' = [callers EXCEPT ![t].pc = "done", ![t].ret = "UI_OK"]
                    /\ UNCHANGED proc
    /\ UNCHANGED mainv

TwoCallerNext == \E t \in Callers : TcCall(t) \/ TcLock(t) \/ TcScan(t) \/ TcAppend(t)

TwoCallerSpec == Init /\ [][TwoCallerNext]_vars

(* ------------- the constructor and the rasterizer, step by step ------------ *)
\* the state before ui_ctx_new: no context, no rendering context, no canvas
RenderInit ==
    /\ mode = NoMode
    /\ r_canvas = NoCanvas /\ r_pc = "boot" /\ reg = NoReg /\ wr = {} /\ oob = FALSE
    /\ file = NoFile
    /\ count = 0
    /\ panes = [s \in Slots |-> NoPane]
    /\ strs = <<>>
    /\ canv = <<>>
    /\ lock = "none"
    /\ cancellation_fd = -1
    /\ drm_rendering_init
    /\ pipe_byte = FALSE
    /\ ctl_pc = "pipe"
    /\ rot_pc = "unborn" /\ i = 0 /\ rot_fd = -1 /\ shown = <<>> /\ flip_r = "none"
    /\ cmd_pc = "idle" /\ call = NoCall /\ ret = "none" /\ calls = 0
    /\ proc = "running"
    /\ callers = NoCallers

\* what the rasterizer's thread leaves alone
r_frame == <<lock, cancellation_fd, pipe_byte, front_buf_idx, ctl_pc, rotv, cmdv, callers, file>>


\* ui_ctx_new, run on the mode m the hardware is in
CtxNew ==
    /\ r_pc = "boot" /\ proc = "running"
    /\ \E m \in Modes :
        LET c0 == mode_canvas(m)
            bad == points_oob(c0, fill_points(c0))
        IN /\ mode' = m
           /\ \E o \in write_outcomes(bad) :
                IF o = "crash"
                THEN /\ proc' = "fatal"
                     /\ UNCHANGED <<store, lock, cancellation_fd, oob, r_pc>>
                ELSE /\ count' = 1
                     /\ panes' = [s \in Slots |->
                                    IF s = 0 THEN [name |-> 1, canvas |-> 2] ELSE NoPane]
                     /\ strs' = (1 :> "root")
                     /\ canv' = (2 :> rendering_fill(c0, bg))
                     /\ lock' = "none"
                     /\ cancellation_fd' = -1
                     /\ oob' = bad
                     /\ r_pc' = "ctx"
                     /\ UNCHANGED proc
    /\ UNCHANGED <<pipe_byte, front_buf_idx, ctl_pc, rotv, cmdv, callers, r_canvas, reg, wr, file>>

\* canvas_init_bgra(w, h)
RCanvasBgra ==
    /\ r_pc = "boot" /\ proc = "running"
    /\ \E w \in 1..MaxDim, h \in 1..MaxDim : r_canvas' = canvas_init_bgra(w, h)
    /\ r_pc' = "idle"
    /\ UNCHANGED <<store, proc, r_frame, mode, reg, wr, oob>>

\* the backend's canvas_init, once the rendering context exists
RCanvasDrm ==
    /\ r_pc = "ctx" /\ proc = "running"
    /\ r_canvas' = drm_canvas_init
    /\ r_pc' = "idle"
    /\ oob' = FALSE
    /\ UNCHANGED <<store, proc, r_frame, mode, reg, wr>>

\* rendering_fill(r_canvas, color)
RFill ==
    /\ r_pc = "idle" /\ reg.op = "none" /\ proc = "running"
    /\ \E color \in Colors :
        LET pts == fill_points(r_canvas)
            bad == points_oob(r_canvas, pts)
        IN \E o \in write_outcomes(bad) :
            /\ reg' = [NoReg EXCEPT !.op = "fill", !.color = color]
            /\ wr' = pts
            /\ IF o = "crash"
               THEN proc' = "fatal" /\ UNCHANGED <<r_canvas, oob>>
               ELSE /\ r_canvas' = rendering_fill(r_canvas, color)
                    /\ oob' = bad
                    /\ UNCHANGED proc
    /\ UNCHANGED <<store, r_frame, mode, r_pc>>

\* the rectangles the rasterizer is called with: corners and sizes at both
\* ends of the 16 bit range, those left out whose loop runs over more than
\* MaxDim + 1 rows
TestRects ==
    {rect \in {[NoShape EXCEPT !.x = x, !.y = y, !.w = w, !.h = h] :
                 x \in {0, 1, U16 - 1}, y \in {0, 1, U16 - 1},
                 w \in {0, 2, U16 - 1}, h \in {0, 1, 2, U16 - 1}} :
        ((rect.y + rect.h) % U16) - rect.y <= MaxDim + 1}

\* rendering_draw_rect(r_canvas, rect, color)
RRect ==
    /\ r_pc = "idle" /\ reg.op = "none" /\ proc = "running"
    /\ \E rect \in TestRects, color \in Colors :
        LET pts == rect_points(r_canvas, rect)
            bad == points_oob(r_canvas, pts)
        IN \E o \in write_outcomes(bad) :
            /\ reg' = [NoReg EXCEPT !.op = "rect", !.color = color, !.cx = rect.x,
                                    !.cy = rect.y, !.w = rect.w, !.h = rect.h]
            /\ wr' = pts
            /\ IF o = "crash"
               THEN proc' = "fatal" /\ UNCHANGED <<r_canvas, oob>>
               ELSE /\ r_canvas' = rendering_draw_rect(r_canvas, rect, color)
                    /\ oob' = bad
                    /\ UNCHANGED proc
    /\ UNCHANGED <<store, r_frame, mode, r_pc>>

\* what open, write and close do to a dump
dump_outcomes == {"ok", "open_fails", "write_fails"}

\* rendering_dump_bgra_to_rgba(r_canvas, pathname), on a fresh canvas or after
\* a call of the rasterizer has returned
RDump ==
    /\ r_pc = "idle" /\ proc = "running" /\ file.st = "none"
    /\ IF r_canvas.stride # 4
       THEN proc' = "fatal" /\ UNCHANGED file
       ELSE LET rounds == canvas_buffer_size(r_canvas) \div r_canvas.stride
            IN \E o \in dump_outcomes :
                CASE o = "ok" ->
                       /\ file' = [st |-> "closed", out |-> dump_rounds(r_canvas.buffer, rounds)]
                       /\ UNCHANGED proc
                  [] o = "open_fails" ->
                       /\ proc' = "fatal" /\ UNCHANGED file
                  [] OTHER ->
                       /\ \E n \in 0..(rounds - 1) :
                            file' = [st |-> "open", out |-> dump_rounds(r_canvas.buffer, n)]
                       /\ proc' = "fatal"
    /\ UNCHANGED <<store, lock, cancellation_fd, pipe_byte, front_buf_idx, ctl_pc, rotv,
                   cmdv, callers, mode, r_canvas, r_pc, reg, wr, oob>>

\* the circles the rasterizer is called with
TestCircles == {[NoShape EXCEPT !.x = x, !.y = y, !.r = r] :
                  x \in 0..(MaxDim - 1), y \in 0..(MaxDim - 1), r \in 0..1}

\* the eight span loops of one round of rendering_draw_circle, in order: the
\* loops 1, 2, 5, 6 count eff_x down to circle->x, the loops 3, 4, 7, 8 up to it
span_is_down(k) == k \in {1, 2, 5, 6}
\* eff_y of span loop k
span_row(rg, k) ==
    (rg.cy + (CASE k \in {1, 4} -> rg.y [] k \in {2, 3} -> 0 - rg.y
                [] k \in {5, 8} -> rg.x [] OTHER -> 0 - rg.x)) % U16
\* the first eff_x of span loop k
span_start(rg, k) ==
    (rg.cx + (CASE k \in {1, 2} -> rg.x [] k \in {3, 4} -> 0 - rg.x
                [] k \in {5, 6} -> rg.y [] OTHER -> 0 - rg.y)) % U16
\* the condition of the span loop the call is in, for the value v of eff_x
span_cond(rg, v) == IF span_is_down(rg.span) THEN v >= rg.cx ELSE v < rg.cx
\* eff_x-- or eff_x++ on 16 bits
span_advance(rg) ==
    IF span_is_down(rg.span) THEN (rg.eff_x - 1) % U16 ELSE (rg.eff_x + 1) % U16
\* the call enters span loop k
enter_span(rg, k) ==
    [rg EXCEPT !.span = k, !.eff_x = span_start(rg, k), !.eff_y = span_row(rg, k)]
\* y++; t1 = t1 + y; t2 = t1 - x; if (t2 >= 0) { t1 = t2; x--; }
round_end(rg) ==
    LET y2 == (rg.y + 1) % U16
        t1b == rg.t1 + y2
        t2 == t1b - rg.x
    IN IF t2 >= 0 THEN [rg EXCEPT !.y = y2, !.t1 = t2, !.x = (rg.x - 1) % U16]
       ELSE [rg EXCEPT !.y = y2, !.t1 = t1b]

\* rendering_draw_circle(r_canvas, circle, color) is called, the centre of the
\* circle on the canvas
RCircleCall ==
    /\ r_pc = "idle" /\ reg.op = "none" /\ proc = "running"
    /\ \E circle \in TestCircles, color \in Colors :
        /\ circle.x < r_canvas.width /\ circle.y < r_canvas.height
        /\ reg' = enter_span([NoReg EXCEPT !.op = "circle", !.color = color,
                                 !.cx = circle.x, !.cy = circle.y, !.r = circle.r,
                                 !.x = circle.r, !.y = 0, !.t1 = circle.r \div 16], 1)
    /\ wr' = {}
    /\ r_pc' = "circle"
    /\ UNCHANGED <<store, proc, r_frame, mode, r_canvas, oob>>

\* one step of rendering_draw_circle: a test of a span loop's condition with
\* the draw_point that follows it, the way to the next span loop, or the end
\* of a round with the test of the while loop
RCircleStep ==
    /\ r_pc = "circle" /\ proc = "running"
    /\ IF span_cond(reg, reg.eff_x)
       THEN /\ reg.draws < MaxDraws
            /\ \E o \in write_outcomes(~point_in_buffer(r_canvas, reg.eff_x, reg.eff_y)) :
                /\ wr' = wr \cup {<<reg.eff_x, reg.eff_y>>}
                /\ IF o = "crash"
                   THEN proc' = "fatal" /\ UNCHANGED <<r_canvas, reg, oob, r_pc>>
                   ELSE /\ r_canvas' = draw_point(r_canvas, reg.eff_x, reg.eff_y, reg.color)
                        /\ oob' = (oob \/ o = "corrupt")
                        /\ reg' = [reg EXCEPT !.eff_x = span_advance(reg),
                                              !.draws = reg.draws + 1]
                        /\ UNCHANGED <<proc, r_pc>>
       ELSE IF reg.span < 8
       THEN /\ reg' = enter_span(reg, reg.span + 1)
            /\ UNCHANGED <<r_canvas, wr, oob, proc, r_pc>>
       ELSE LET rg == round_end(reg)
            IN /\ IF rg.x >= rg.y
                  THEN reg' = enter_span(rg, 1) /\ r_pc' = "circle"
                  ELSE reg' = [rg EXCEPT !.span = 0] /\ r_pc' = "idle"
               /\ UNCHANGED <<r_canvas, wr, oob, proc>>
    /\ UNCHANGED <<store, r_frame, mode>>

RenderNext ==
    \/ CtxNew \/ RCanvasBgra \/ RCanvasDrm
    \/ RFill \/ RRect \/ RCircleCall \/ RCircleStep
    \/ RDump

RenderSpec == RenderInit /\ [][RenderNext]_vars

(* ============================== claims =============================== *)
\* the name is held by a slot below count
NamePresent(n) == \E s \in 0..(count - 1) : name_is(s, n)
\* the slot below count that holds the name
SlotOf(n) == CHOOSE s \in 0..(count - 1) : name_is(s, n)
\* number of slots below cnt holding the name, in a given store
NameCount(cnt, pn, st, n) ==
    Cardinality({s \in 0..(cnt - 1) : pn[s].name \in DOMAIN st /\ st[pn[s].name] = n})
\* a step in which a ui_pane_* function runs its body on the live context and returns
Returned == cmd_pc = "body" /\ cmd_pc' = "idle" /\ ~torn
IsDraw == call.op \in {"draw_rect", "draw_circle"}
\* the rotation loop is between taking and returning the lock
RotInShow == rot_pc \in {"show", "flip"}
\* the rotation loop has been started and has not left its loop
RotRunning == rot_pc \in {"lock", "show", "flip", "poll"}

\* C1: a draw_rect / draw_circle call whose name matches no pane returns
\* UI_NO_SUCH_PANE and changes no canvas, and a draw call returns UI_OK only
\* when a pane has that name.
C1_DrawUnknownPane ==
    [][(Returned /\ IsDraw) =>
         /\ ~NamePresent(call.name) => (ret' = "UI_NO_SUCH_PANE" /\ canv' = canv)
         /\ ret' = "UI_OK" => NamePresent(call.name)]_vars

\* C2: while the rotation loop runs, the pane count is at least 1.
C2_CountPositive == RotRunning => count >= 1

\* C3: ui_pane_create with a name already in the store returns UI_DUPLICATE
\* and leaves count, slots, names and canvases as they were, so exactly one
\* pane has the name.
C3_DuplicateCreate ==
    [][(Returned /\ call.op = "create" /\ NamePresent(call.name)) =>
         /\ ret' = "UI_DUPLICATE"
         /\ UNCHANGED store
         /\ NameCount(count', panes', strs', call.name) = 1]_vars
C3_Witness == cmd_pc = "idle" /\ call.op = "create" /\ ret = "UI_DUPLICATE" /\ ~torn

\* C4: the slots below count hold live names that are pairwise different.
C4_UniqueNames ==
    ~torn => \A s, t \in 0..(count - 1) :
                /\ panes[s].name \in DOMAIN strs
                /\ s # t => strs[panes[s].name] # strs[panes[t].name]
C4_Witness == count = 2 /\ cmd_pc = "idle" /\ call.op = "create" /\ ret = "UI_OK" /\ ~torn

\* C5: ui_pane_remove with a name no pane has returns UI_NO_SUCH_PANE and
\* changes neither the count nor any slot.
C5_RemoveUnknown ==
    [][(Returned /\ call.op = "remove" /\ ~NamePresent(call.name)) =>
         /\ ret' = "UI_NO_SUCH_PANE"
         /\ count' = count
         /\ panes' = panes]_vars
C5_Witness == cmd_pc = "idle" /\ call.op = "remove" /\ ret = "UI_NO_SUCH_PANE" /\ ~torn

C7_LockReleasedOnReturn == (cmd_pc = "idle" /\ ~torn) => lock # "cmd"

\* C8: when ui_pane_create returns UI_OOM, the count and the slots below it
\* are as before the call, and the heap holds no name or canvas it did not
\* hold before.
C8_CreateOomLeavesStore ==
    [][(Returned /\ call.op = "create" /\ ret' = "UI_OOM") =>
         /\ count' = count
         /\ \A s \in 0..(count - 1) : panes'[s] = panes[s]
         /\ strs' = strs
         /\ canv' = canv]_vars
C8_Witness == cmd_pc = "idle" /\ call.op = "create" /\ ret = "UI_OOM" /\ ~torn

\* C9: the rotation loop is inside its read-index-and-show step only as the
\* owner of the mutex, a ui_pane_* body runs only as the owner of the mutex,
\* and the two are never inside at once.
C9_MutualExclusion ==
    /\ RotInShow => lock = "rot"
    /\ cmd_pc = "body" => lock = "cmd"
    /\ ~(RotInShow /\ cmd_pc = "body")
C9_Witness == rot_pc = "flip" /\ cmd_pc = "lock" /\ lock = "rot"

\* C10: as long as no create or remove has happened, tick i shows the pane
\* in slot i mod count, consecutive ticks are logged one after the other,
\* any count consecutive ticks show every pane once, and with the panes
\* root and x, root is shown on the even ticks and x on the odd ones.
C10_RoundRobin ==
    (~torn /\ count >= 1) =>
        /\ \A k \in 1..Len(shown) :
              /\ shown[k].slot = shown[k].tick % count
              /\ name_is(shown[k].slot, shown[k].name)
              /\ k > 1 => shown[k].tick = shown[k - 1].tick + 1
        /\ \A k \in 1..(Len(shown) - count + 1) :
              {shown[j].slot : j \in k..(k + count - 1)} = 0..(count - 1)
        /\ (count = 2 /\ name_is(0, "root")) =>
              \A k \in 1..Len(shown) :
                 (shown[k].name = "root") <=> (shown[k].tick % 2 = 0)
C10_Witness ==
    /\ ~torn /\ count = 2 /\ name_is(0, "root") /\ Len(shown) >= 3
    /\ shown[1].name = "root" /\ shown[2].name # "root" /\ shown[3].name = "root"

\* the shows that have returned: one per tick, the one of tick i once the
\* loop is at its poll or has left
ShowsReturned ==
    IF rot_pc = "unborn" THEN 0
    ELSE IF rot_pc \in {"poll", "exited"} THEN i + 1 ELSE i
\* a step of the page flip loop that gets a new result
FlipStep == rot_pc = "flip" /\ flip_r' # flip_r
\* the step in which the body of the ui_pane_* call in progress runs
BodyStep == cmd_pc = "body" /\ ~torn /\ call' # call

\* C11: once ui_thread has written the cancellation byte, the rotation thread
\* leaves its loop and ui_thread's join returns (teardown is reached), unless
\* the process has been terminated by a fatal error.
C11_CancellationLiveness == pipe_byte ~> (ctl_pc = "done" \/ proc = "fatal")

\* C12: once the byte is written, the poll the rotation thread performs makes
\* it leave the loop: the tick counter no longer advances, the loop top is
\* not entered again, so that no show begins but the one of the current tick.
C12_ExitOnFirstPoll ==
    [][pipe_byte =>
         /\ i' = i
         /\ (rot_pc = "poll" /\ rot_pc' # "poll") => rot_pc' = "exited"
         /\ rot_pc' = "lock" => rot_pc = "lock"
         /\ rot_pc' = "show" => rot_pc \in {"lock", "show"}
         /\ rot_pc = "exited" => rot_pc' = "exited"]_vars
C12_Witness ==
    pipe_byte /\ rot_pc = "exited" /\ ctl_pc = "join" /\ proc = "running" /\ Len(shown) >= 1

\* C13: the front index is 0 or 1 and the back buffer is the other one; a
\* show that returns toggles the front index, nothing else changes it, and
\* after n shows have returned the front buffer is n mod 2.
C13_FrontBack ==
    /\ [](/\ front_buf_idx \in {0, 1}
          /\ flip_front(front_buf_idx) \in {0, 1} \ {front_buf_idx}
          /\ front_buf_idx = ShowsReturned % 2)
    /\ [][/\ (rot_pc = "flip" /\ rot_pc' = "poll") => front_buf_idx' = 1 - front_buf_idx
          /\ front_buf_idx' # front_buf_idx => (rot_pc = "flip" /\ rot_pc' = "poll")]_vars
C13_Witness == ShowsReturned = 2 /\ front_buf_idx = 0 /\ proc = "running"

C15_Capacity ==
    /\ [](count <= MAX_PANES)
    /\ [][(BodyStep /\ call.op = "create" /\ ~NamePresent(call.name) /\ count = MAX_PANES) =>
            /\ proc' = "fatal" /\ cmd_pc' = "body" /\ ret' = "none"
            /\ UNCHANGED store]_vars
C15_Witness ==
    /\ proc = "fatal" /\ cmd_pc = "body" /\ lock = "cmd" /\ call.op = "create"
    /\ count = MAX_PANES

\* the two callers have made overlapping calls with the same name and both
\* calls have returned
BothReturned ==
    /\ \A t \in Callers : callers[t].pc = "done"
    /\ callers["c1"].name = callers["c2"].name
    /\ \E t \in Callers : callers[t].conc
\* the slots below the count (and inside the array) that hold the name
SlotsNamed(n) == {s \in Slots : s < count /\ name_is(s, n)}

CanvasFilled(c, color) ==
    \A k \in 0..((Len(c.buffer) \div 4) - 1) :
        /\ c.buffer[4 * k + 1] = color.b /\ c.buffer[4 * k + 2] = color.g
        /\ c.buffer[4 * k + 3] = color.r /\ c.buffer[4 * k + 4] = 255

\* C16: when ui_ctx_new has returned, the store holds exactly one pane, named
\* "root", its canvas is filled with the background colour everywhere, the
\* mutex is unlocked, and the rotation thread does not exist yet.
C16_CtxNewRoot ==
    r_pc = "ctx" =>
        /\ count = 1 /\ name_is(0, "root")
        /\ panes[0].canvas \in DOMAIN canv
        /\ CanvasFilled(canv[panes[0].canvas], bg)
        /\ lock = "none"
        /\ rot_pc = "unborn"

\* the circle of the call lies fully inside the canvas
CircleInside ==
    /\ reg.cx - reg.r >= 0 /\ reg.cy - reg.r >= 0
    /\ reg.cx + reg.r < r_canvas.width /\ reg.cy + reg.r < r_canvas.height

\* C18: a call of rendering_draw_circle with r = 0 and the centre on the
\* canvas passes no point but the centre to draw_point, and has drawn the
\* centre when it returns.
C18_CircleZero ==
    (reg.op = "circle" /\ reg.r = 0 /\ CircleInside) =>
        /\ wr \subseteq {<<reg.cx, reg.cy>>}
        /\ r_pc = "idle" => wr = {<<reg.cx, reg.cy>>}

\* the span loop the call is in has a value of eff_x at which it ends
SpanCanEnd == \E v \in 0..(U16 - 1) : ~span_cond(reg, v)

\* C19: a call of rendering_draw_circle on a circle that lies fully inside the
\* canvas terminates: while it runs the process is alive and the span loop it
\* is in can end (the loop's body leaves the loop's bound alone and has no
\* other way out than the loop's condition).
C19_CircleTerminates ==
    (reg.op = "circle" /\ r_pc = "circle" /\ CircleInside) =>
        proc = "running" /\ SpanCanEnd

\* the four bytes of pixel (x, y) of a canvas of four bytes per pixel
pixel_bytes(c, x, y) ==
    LET at == (y * c.width + x) * 4
    IN <<c.buffer[at + 1], c.buffer[at + 2], c.buffer[at + 3], c.buffer[at + 4]>>

\* rendering_fill has run on a canvas of stride 4 that is at least 1x1
FilledBgra ==
    /\ reg.op = "fill" /\ r_canvas.stride = 4
    /\ r_canvas.width >= 1 /\ r_canvas.height >= 1

\* C20: after rendering_fill(canvas, color) on a canvas of at least 1x1 with
\* stride 4 every pixel (x, y), x < width and y < height, holds the bytes
\* color.b, color.g, color.r, 0xFF, and no byte outside the buffer was written.
C20_FillExact ==
    [][(reg.op = "none" /\ FilledBgra') =>
          /\ proc' = "running" /\ ~oob'
          /\ Len(r_canvas'.buffer) = r_canvas.width * r_canvas.height * 4
          /\ \A x \in 0..(r_canvas.width - 1), y \in 0..(r_canvas.height - 1) :
                pixel_bytes(r_canvas', x, y) =
                    <<reg'.color.b, reg'.color.g, reg'.color.r, 255>>]_vars

\* a 2x2 canvas of stride 4 has been filled with red
C20_Witness ==
    /\ FilledBgra /\ r_canvas.width = 2 /\ r_canvas.height = 2 /\ reg.color = Red

\* the box of the rectangle of the call, [x, x + w) by [y, y + h), its columns
\* cut at the width of the canvas
InBox(p) ==
    /\ reg.cx <= p[1] /\ p[1] < reg.cx + reg.w /\ p[1] < r_canvas.width
    /\ reg.cy <= p[2] /\ p[2] < reg.cy + reg.h
\* the rows of the box
BoxRows == reg.cy..(reg.cy + reg.h - 1)

\* C21: rendering_draw_rect passes to draw_point exactly the points (px, py)
\* with rect.x <= px < rect.x + rect.w, px < width and
\* rect.y <= py < rect.y + rect.h, the sums not reduced to 16 bits.
C21_RectExact ==
    reg.op = "rect" =>
        /\ \A p \in wr : InBox(p)
        /\ \A px \in 0..(r_canvas.width - 1), py \in BoxRows :
              InBox(<<px, py>>) => <<px, py>> \in wr

\* the step of a call of rendering_draw_rect
RectStep == r_pc = "idle" /\ reg.op = "none" /\ reg'.op = "rect"

\* C22: rendering_draw_rect with rect.w = 0 or rect.h = 0 passes no point to
\* draw_point and leaves the canvas, its buffer byte for byte, as it was, for
\* every rect.x and rect.y.
C22_RectEmpty ==
    [][(RectStep /\ (reg'.w = 0 \/ reg'.h = 0)) =>
          /\ wr' = {}
          /\ r_canvas' = r_canvas
          /\ proc' = "running" /\ oob' = oob]_vars

\* a rect of width 0 and height 2 at the corner (0, 0) has been drawn
C22_Witness ==
    /\ reg.op = "rect" /\ reg.w = 0 /\ reg.h = 2 /\ reg.cx = 0 /\ reg.cy = 0
    /\ r_canvas.width >= 1

\* the step of a dump that runs to its end
DumpStep == file.st = "none" /\ file'.st = "closed"

\* C23: a dump that runs to its end writes as many bytes as the buffer of the
\* canvas holds, for each pixel in buffer order the bytes input[2], input[1],
\* input[0], input[3], and the same permutation of the file gives the buffer.
C23_DumpPermutes ==
    [][DumpStep =>
          /\ Len(file'.out) = Len(r_canvas.buffer)
          /\ \A k \in 0..((Len(r_canvas.buffer) \div 4) - 1) :
                /\ file'.out[4 * k + 1] = r_canvas.buffer[4 * k + 3]
                /\ file'.out[4 * k + 2] = r_canvas.buffer[4 * k + 2]
                /\ file'.out[4 * k + 3] = r_canvas.buffer[4 * k + 1]
                /\ file'.out[4 * k + 4] = r_canvas.buffer[4 * k + 4]
          /\ dump_rounds(file'.out, Len(file'.out) \div 4) = r_canvas.buffer]_vars

\* a 2x2 canvas filled with red has been dumped
C23_Witness ==
    /\ file.st = "closed" /\ reg.op = "fill" /\ reg.color = Red
    /\ r_canvas.width = 2 /\ r_canvas.height = 2
    /\ file.out = <<255, 0, 0, 255, 255, 0, 0, 255, 255, 0, 0, 255, 255, 0, 0, 255>>

\* the command reader is inside ui_pane_create, ui_pane_remove,
\* ui_pane_draw_rect or ui_pane_draw_circle
CmdInCall == cmd_pc \in {"lock", "body"}

\* C24: once ui_thread has freed the panes and the context, the command
\* reader is not inside a ui_pane_* function on that store, and does not
\* enter one.
C24_TeardownExclusive == torn => ~CmdInCall

\* rendering_fill has run on a canvas of the backend's canvas_init
FilledDrm == reg.op = "fill" /\ mode # NoMode /\ r_canvas.stride = mode.pitch

\* the four bytes draw_point writes for (x, y) lie inside the buffer of c,
\* stated on the offset
WriteInside(c, x, y) ==
    LET at == (y * c.width + x) * c.stride
    IN at >= 0 /\ at + 3 < Len(c.buffer)

\* C25: on a canvas of the backend's canvas_init, width and height those of
\* the mode, stride the row pitch, buffer as long as the hardware buffer,
\* every write of rendering_fill, four bytes at (y*width + x)*stride for
\* x < width and y < height, lies inside the buffer.
C25_FillInBuffer ==
    FilledDrm =>
        /\ Len(r_canvas.buffer) = mode.size
        /\ \A x \in 0..(r_canvas.width - 1), y \in 0..(r_canvas.height - 1) :
              <<x, y>> \in wr /\ WriteInside(r_canvas, x, y)

\* the order of the steps of ui_thread
CtlOrder == {<<"pipe", "term_block">>, <<"term_block", "join">>, <<"join", "done">>}
\* a step in which rendering_show is entered or swaps the buffers
ShowStep == Len(shown') > Len(shown) \/ front_buf_idx' # front_buf_idx

C27_DrawFrame ==
    [][(BodyStep /\ IsDraw /\ NamePresent(call.name)) =>
          /\ count' = count /\ panes' = panes /\ strs' = strs
          /\ DOMAIN canv' = DOMAIN canv
          /\ \A q \in DOMAIN canv :
                q # panes[SlotOf(call.name)].canvas => canv'[q] = canv[q]]_vars

\* the point p lies in the square [x - r, x + r] by [y - r, y + r] of the
\* circle of the call
InSquare(p) ==
    /\ reg.cx - reg.r <= p[1] /\ p[1] <= reg.cx + reg.r
    /\ reg.cy - reg.r <= p[2] /\ p[2] <= reg.cy + reg.r

\* C28: for a circle fully on the canvas every point rendering_draw_circle
\* passes to draw_point lies in the square of the circle, hence on the canvas,
\* and no 16 bit coordinate wraps around: x stays at most r, eff_x and eff_y
\* at most x + r and y + r.
C28_CircleInSquare ==
    (reg.op = "circle" /\ CircleInside) =>
        /\ \A p \in wr : InSquare(p) /\ p[1] < r_canvas.width /\ p[2] < r_canvas.height
        /\ reg.x <= reg.r
        /\ reg.eff_x <= reg.cx + reg.r /\ reg.eff_y <= reg.cy + reg.r

====
